---- MODULE Spec2Model ----
(***************************************************************************)
(* A model of the upload pipeline of s3-lite-client:                       *)
(*     source stream => TransformChunkSizes => ObjectUploader              *)
(* as Client.putObject assembles it, with the S3 server as the environment *)
(* that answers every request, in any order, with success or failure.      *)
(***************************************************************************)
EXTENDS Integers, Sequences, FiniteSets, TLC

\* ------------------------------------------------------------------ bounds
\* Total number of bytes the source stream delivers, at most.
MaxTotal == 3
\* Largest part size (= outChunkSize of the chunker) tried.
MaxPartSize == 2
\* number of part-size increments whose thresholds are among the object sizes tried
MaxSteps == 29
\* Longest object name and longest query parameter value tried, in characters.
MaxNameLen == 2
MaxValLen == 2
\* Most headers appended to the Headers object of a request that is signed.
MaxHeaders == 3
\* Largest maxResults tried, most pages requested, and most entries in one page.
MaxResults == 3
MaxPages == 3
MaxEntries == 3

\* ------------------------------------------------------------- value sets
Bytes == {0, 1}
\* An ETag header value is a sequence of symbols; "q" stands for the double
\* quote character, "quot" for the entity &quot; and "n34" for &#34;.
EtagValues == {<<"q", "a", "q">>, <<"b">>}
\* x-amz-version-id header: "null" stands for an absent header.
VersionIds == {"null", "v1"}
\* UploadId element of the initiate response; "" stands for a missing one.
UploadIdValues == {"u1", ""}
\* The metadata option of putObject: user headers, some of them SSE-C headers.
MetadataChoices ==
    { [k \in {} |-> ""],
      [k \in {"x-amz-meta-custom-header", "x-amz-server-side-encryption-customer-algorithm",
               "x-amz-server-side-encryption-customer-key",
               "x-amz-server-side-encryption-customer-key-MD5"} |->
          CASE k = "x-amz-meta-custom-header" -> "custom"
            [] k = "x-amz-server-side-encryption-customer-algorithm" -> "AES256"
            [] k = "x-amz-server-side-encryption-customer-key" -> ""
            [] OTHER -> "md5"] }

VARIABLES
    partSize,          \* putObject: const partSize (also the chunker's outChunkSize)
    metadata,          \* putObject: options.metadata ?? {}
    srcState,          \* source stream: "open", "ended" (flush has run) or "errored"
    input,             \* history: every byte the source has delivered, in order
    seen,              \* history: the kinds of input chunk delivered ("empty", "big")
    heap,              \* every Uint8Array the chunker has allocated
    buffer,            \* TransformChunkSizes: let buffer (index into heap)
    offset,            \* TransformChunkSizes: let offset
    emitted,           \* history: every chunk the chunker has enqueued
    queue,             \* chunks enqueued and not yet handed to the uploader's write
    result,            \* ObjectUploader: let result
    nextPartNumber,    \* ObjectUploader: let nextPartNumber
    uploadId,          \* ObjectUploader: let uploadId ("" = undefined)
    etags,             \* ObjectUploader: const etags
    multiUploadError,  \* ObjectUploader: let multiUploadError
    partsPromises,     \* ObjectUploader: const partsPromises ("pending"/"fulfilled")
    wpc,               \* where the running write() is suspended: "idle", "put", "init"
    wchunk,            \* the chunk of the running write()
    wpartNumber,       \* const partNumber of the running write()
    cpc,               \* where close() is: "none", "parts", "complete", "done"
    reqs,              \* every request issued through client.makeRequest, in order
    firstFailed,       \* history: the part whose upload failed first in time (0: none)
    outOfOrder,        \* history: a part was answered while an earlier part was in flight
    outcome,           \* putObject: "running", "success" (returned) or "failed" (threw)
    error,             \* the error putObject threw
    options,           \* putObject's options: [size, partSize], each possibly undefined
    detected,          \* size auto-detected from string or Uint8Array data (undefined for a stream)
    size,              \* putObject's local `size`
    calcPartSize,      \* calculatePartSize's local `partSize`
    putPartSize,       \* putObject's `const partSize`
    ppc,               \* putObject: "validate", "select", "calc", "range", "piping", "thrown"
    thrown,            \* name of the error putObject's argument checks threw, or ""
    op,                \* "deleteObject", "statObject", "getObject", "getPresignedUrl", "makeRequest"
    objectName,        \* its object name, a sequence of characters
    parameters,        \* its query parameters, a sequence of [key, val]
    rawQuery,          \* the query of a direct makeRequest call, given as a string
    upc,               \* "start", "built" (buildRequestOptions returned), "done"
    path,              \* the path buildRequestOptions returned
    url,               \* path and query of the URL given to fetch, or of the presigned URL
    canonical,         \* canonical URI and canonical query string of the signed request
    headerList,        \* the header names of a request's Headers object, as they were appended
    signCall,          \* a call of signV4, presignV4 or presignPostV4 and its outcome
    listOptions,       \* listObjectsGrouped: options.maxResults and options.pageSize
    lpc,               \* listObjectsGrouped: "start", "loop", "awaiting", "yielding", "done", "thrown"
    continuationToken, \* listObjectsGrouped: let continuationToken
    resultCount,       \* listObjectsGrouped: let resultCount
    toYield,           \* entries of the current page not yet yielded
    root,              \* IsTruncated and NextContinuationToken of the current page
    yielded,           \* history: how many results the generator has yielded
    listRequests,      \* history: max-keys of each page request, and what had been yielded by then
    pages              \* history: how many entries each page answered held

vars == <<partSize, metadata, srcState, input, seen, heap, buffer, offset, emitted, queue,
          result, nextPartNumber, uploadId, etags, multiUploadError, partsPromises,
          wpc, wchunk, wpartNumber, cpc, reqs, firstFailed, outOfOrder, outcome, error,
          options, detected, size, calcPartSize, putPartSize, ppc, thrown,
          op, objectName, parameters, rawQuery, upc, path, url, canonical,
          headerList, signCall,
          listOptions, lpc, continuationToken, resultCount, toYield, root, yielded,
          listRequests, pages>>

signVars == <<headerList, signCall>>
listVars == <<listOptions, lpc, continuationToken, resultCount, toYield, root, yielded,
              listRequests, pages>>
restVars == <<signVars, listVars>>
urlVars == <<op, objectName, parameters, rawQuery, upc, path, url, canonical>>
putVars == <<options, detected, size, calcPartSize, putPartSize, ppc, thrown>>
\* What no step of the stream pipeline changes.
constVars == <<partSize, metadata, putVars, urlVars, restVars>>
chunkerVars == <<srcState, input, seen, heap, buffer, offset, emitted>>
uploaderVars == <<result, nextPartNumber, uploadId, etags, multiUploadError,
                  partsPromises, wpc, wchunk, wpartNumber, cpc, reqs, firstFailed, outOfOrder,
                  outcome, error>>

\* ---------------------------------------------------------------- helpers
Min(a, b) == IF a < b THEN a ELSE b

Range(s) == {s[i] : i \in 1..Len(s)}

RECURSIVE SeqsUpTo(_, _)
\* All sequences over S of length at most n.
SeqsUpTo(S, n) ==
    IF n = 0 THEN {<<>>}
    ELSE LET shorter == SeqsUpTo(S, n - 1)
         IN shorter \cup {Append(s, x) : s \in {t \in shorter : Len(t) = n - 1}, x \in S}

NoError == [kind |-> "none", part |-> 0]
NoResult == [etag |-> <<"undefined">>, versionId |-> "undefined"]
NoChunk == [buf |-> 0, len |-> 0]

\* The error a failed request of the given kind raises (part: its partNumber).
RequestError(kind, part) == [kind |-> kind, part |-> part]
\* new Error("Stream was closed without uploading any data.")
ClosedWithoutData == [kind |-> "Stream was closed without uploading any data.", part |-> 0]
\* The error of a source stream that errors or is aborted by its owner.
SourceError == [kind |-> "source", part |-> 0]
\* new Error(`Unable to get UploadId from response: ...`)
NoUploadIdError == [kind |-> "Unable to get UploadId from response", part |-> 0]

\* ---------------------------------------------------------------- chunker
outChunkSize == partSize

\* new Uint8Array(n): zero-filled
NewBuffer(n) == [i \in 1..n |-> 0]

\* Mutant: the copy ignores the offset and always writes at the start of the buffer.
BufferSetAtStart(h, b, src, off) ==
    [h EXCEPT ![b] = [i \in 1..Len(h[b]) |-> IF i <= Len(src) THEN src[i] ELSE h[b][i]]]

\* buffer.set(src, off) on the heap object b
BufferSet(h, b, src, off) ==
    [h EXCEPT ![b] = [i \in 1..Len(h[b]) |->
        IF i > off /\ i <= off + Len(src) THEN src[i - off] ELSE h[b][i]]]

\* The bytes a chunk (a view of len bytes at the start of heap object buf) holds.
ChunkBytes(h, c) == SubSeq(h[c.buf], 1, c.len)

\* Mutant: the chunker goes on filling the array it has just enqueued.
NextBufferReused(st) == [st EXCEPT !.offset = 0]

\* Mutant: the buffer is taken for full one byte early.
BufferIsFullEarly(off, n) == off >= n - 1

\* if (offset === outChunkSize)
BufferIsFull(off, n) == off = n

\* After controller.enqueue(buffer) the chunker continues with a new array.
NextBuffer(st) == [st EXCEPT !.heap = Append(st.heap, NewBuffer(Len(st.heap[st.buffer]))),
                             !.buffer = Len(st.heap) + 1,
                             !.offset = 0]

RECURSIVE TransformLoop(_, _, _)
\* The while loop of transform(chunk, controller) from position pos on;
\* st = [heap, buffer, offset, out], out being the chunks enqueued so far.
TransformLoop(chunk, pos, st) ==
    IF pos >= Len(chunk) THEN st
    ELSE LET outSize == Len(st.heap[st.buffer])
             needed == outSize - st.offset
             toCopy == Min(needed, Len(chunk) - pos)
             copied == [st EXCEPT
                          !.heap = BufferSet(st.heap, st.buffer,
                                             SubSeq(chunk, pos + 1, pos + toCopy), st.offset),
                          !.offset = st.offset + toCopy]
             full == BufferIsFull(copied.offset, outSize)
             enq == [copied EXCEPT
                          !.out = Append(copied.out, [buf |-> copied.buffer, len |-> outSize])]
         IN TransformLoop(chunk, pos + toCopy, IF full THEN NextBuffer(enq) ELSE copied)

\* transform(chunk, controller)
Transform(chunk) ==
    /\ srcState = "open"
    /\ outcome = "running"
    /\ LET st == TransformLoop(chunk, 0,
                     [heap |-> heap, buffer |-> buffer, offset |-> offset, out |-> <<>>])
       IN /\ heap' = st.heap
          /\ buffer' = st.buffer
          /\ offset' = st.offset
          /\ emitted' = emitted \o [i \in 1..Len(st.out) |->
                                      [buf |-> st.out[i].buf, len |-> st.out[i].len,
                                       atFlush |-> FALSE]]
          /\ queue' = queue \o st.out
    /\ input' = input \o chunk
    /\ seen' = seen \cup {k \in {"empty", "big"} :
                          \/ k = "empty" /\ Len(chunk) = 0
                          \/ k = "big" /\ Len(chunk) > outChunkSize}
    /\ UNCHANGED <<constVars, srcState>>
    /\ UNCHANGED uploaderVars

\* Mutant: flush enqueues the buffer view even when it is empty.
FlushEmitsAlways(off) == off >= 0

\* flush(controller) enqueues what remains: if (offset > 0)
FlushEmits(off) == off > 0

\* flush(controller): the source stream has ended
Flush ==
    /\ srcState = "open"
    /\ outcome = "running"
    /\ srcState' = "ended"
    /\ IF FlushEmits(offset)
       THEN /\ emitted' = Append(emitted, [buf |-> buffer, len |-> offset, atFlush |-> TRUE])
            /\ queue' = Append(queue, [buf |-> buffer, len |-> offset])
       ELSE UNCHANGED <<emitted, queue>>
    /\ UNCHANGED <<constVars, input, seen, heap, buffer, offset>>
    /\ UNCHANGED uploaderVars

\* The source stream errors (or its owner aborts it) before it has ended; the pipes
\* carry the error forward: the chunker's readable side is errored, nothing more is
\* read from it, and pipeTo starts shutting down with the source's error.
SourceErrors ==
    /\ srcState = "open"
    /\ outcome = "running"
    /\ srcState' = "errored"
    /\ UNCHANGED <<constVars, input, seen, heap, buffer, offset, emitted, queue>>
    /\ UNCHANGED uploaderVars

\* The source delivers one more chunk, of any length the bounds allow.
SourceChunk ==
    \E chunk \in SeqsUpTo(Bytes, MaxTotal - Len(input)) : Transform(chunk)

\* --------------------------------------------------------------- uploader
\* etag.replace(/^"/, "").replace(/"$/, "") of the part-upload response handler
StripQuotes(etag) ==
    LET a == IF etag # <<>> /\ Head(etag) = "q" THEN Tail(etag) ELSE etag
    IN IF a # <<>> /\ a[Len(a)] = "q" THEN SubSeq(a, 1, Len(a) - 1) ELSE a

QuoteSymbols == {"q", "quot", "n34"}

\* sanitizeETag: removes one leading and one trailing quote or quote entity
sanitizeETag(etag) ==
    LET a == IF etag # <<>> /\ Head(etag) \in QuoteSymbols THEN Tail(etag) ELSE etag
    IN IF a # <<>> /\ a[Len(a)] \in QuoteSymbols THEN SubSeq(a, 1, Len(a) - 1) ELSE a

\* The comparator of etags.sort in close(): (a, b) => a.part > b.part ? 1 : -1
CompareParts(a, b) == IF a.part > b.part THEN 1 ELSE -1

RECURSIVE InsertSorted(_, _)
InsertSorted(s, x) ==
    IF s = <<>> THEN <<x>>
    ELSE IF CompareParts(x, Head(s)) < 0 THEN <<x>> \o s
    ELSE <<Head(s)>> \o InsertSorted(Tail(s), x)

\* Mutant: the etags are sent in arrival order.
SortEtagsSkipped(s) == s

RECURSIVE SortEtags(_)
\* etags.sort((a, b) => a.part > b.part ? 1 : -1)
SortEtags(s) == IF s = <<>> THEN <<>> ELSE InsertSorted(SortEtags(Tail(s)), Head(s))

\* String(chunk.length)
DecimalString(n) == <<"0", "1", "2", "3", "4", "5", "6", "7", "8", "9">>[n + 1]

multipartTagAlongMetadataKeys ==
    <<"x-amz-server-side-encryption-customer-algorithm",
      "x-amz-server-side-encryption-customer-key",
      "x-amz-server-side-encryption-customer-key-MD5">>

NoHeaders == [k \in {} |-> ""]

\* Mutant: the single-shot PUT sends Content-Length only.
PutHeadersWithoutMetadata(md, len) == [k \in {"Content-Length"} |-> DecimalString(len)]

\* Single-shot PUT: new Headers({ ...metadata, "Content-Length": String(chunk.length) })
PutHeaders(md, len) ==
    [k \in DOMAIN md \cup {"Content-Length"} |->
        IF k = "Content-Length" THEN DecimalString(len) ELSE md[k]]

\* Mutant: every part carries all the metadata.
PartHeadersWithAllMetadata(md, len) ==
    [k \in DOMAIN md \cup {"Content-Length"} |->
        IF k = "Content-Length" THEN DecimalString(len) ELSE md[k]]

\* Upload part: Content-Length plus the tag-along keys whose metadata value is truthy
PartHeaders(md, len) ==
    [k \in {"Content-Length"} \cup
           {t \in Range(multipartTagAlongMetadataKeys) : t \in DOMAIN md /\ md[t] # ""} |->
        IF k \in Range(multipartTagAlongMetadataKeys) THEN md[k] ELSE DecimalString(len)]

\* A request handed to client.makeRequest, with its answer once it has arrived.
Request(kind, partNumber, uid, headers, payload, parts) ==
    [kind |-> kind, partNumber |-> partNumber, uploadId |-> uid, headers |-> headers,
     payload |-> payload, parts |-> parts, status |-> "inflight", etag |-> <<>>,
     versionId |-> ""]

\* For an initiate request, uploadId is the UploadId its response returned.
RequestsOf(kind) == {i \in 1..Len(reqs) : reqs[i].kind = kind}

\* Mutant: the counter is never advanced.
PostIncrementNever(n) == n

\* Mutant: the counter skips a number.
PostIncrementByTwo(n) == n + 2

\* const partNumber = nextPartNumber++ : the value nextPartNumber has afterwards
PostIncrement(n) == n + 1

\* Mutant: the single-shot test forgets that only the first chunk may take it.
IsSingleShotAnyPart(partNumber, len, pSize) == len < pSize

\* Mutant: a chunk of exactly partSize bytes is taken for a small upload too.
IsSingleShotInclusive(partNumber, len, pSize) == partNumber = 1 /\ len <= pSize

\* write() takes the single-shot branch
IsSingleShot(partNumber, len, pSize) == partNumber = 1 /\ len < pSize

\* Mutant: the upload-part request is sent without the uploadId.
PartRequestWithoutUploadId(partNumber, chunk, uid) ==
    Request("part", partNumber, "", PartHeaders(metadata, chunk.len),
            ChunkBytes(heap, chunk), <<>>)

\* The upload-part request of write(): client.makeRequest({query: {partNumber, uploadId},
\* payload: chunk}) and partsPromises.push(partPromise.catch(...)).
PartRequest(partNumber, chunk, uid) ==
    Request("part", partNumber, uid, PartHeaders(metadata, chunk.len),
            ChunkBytes(heap, chunk), <<>>)

PartPromise(partNumber) == [part |-> partNumber, state |-> "pending"]

\* The upload-part requests not answered yet.
InFlightParts == {i \in RequestsOf("part") : reqs[i].status = "inflight"}

\* Mutant: write() awaits partPromise, so the sink starts no write while a part is in flight.
AwaitsPartPromiseInWrite == TRUE

\* "We can't `await partPromise` now": write() returns once the part request is dispatched.
AwaitsPartPromise == FALSE

\* write(chunk, _controller) up to its first await (or to its end, for parts after the first)
Write ==
    /\ outcome = "running"
    /\ srcState # "errored"
    /\ wpc = "idle"
    /\ AwaitsPartPromise => InFlightParts = {}
    /\ cpc = "none"
    /\ queue # <<>>
    /\ LET chunk == Head(queue)
           partNumber == nextPartNumber
       IN /\ nextPartNumber' = PostIncrement(nextPartNumber)
          /\ queue' = Tail(queue)
          /\ IF IsSingleShot(partNumber, chunk.len, partSize)
             THEN /\ reqs' = Append(reqs, Request("put", 0, "", PutHeaders(metadata, chunk.len),
                                                  ChunkBytes(heap, chunk), <<>>))
                  /\ wpc' = "put"
                  /\ wchunk' = chunk
                  /\ wpartNumber' = partNumber
                  /\ UNCHANGED partsPromises
             ELSE IF partNumber = 1
             THEN /\ reqs' = Append(reqs, Request("initiate", 0, "", metadata, <<>>, <<>>))
                  /\ wpc' = "init"
                  /\ wchunk' = chunk
                  /\ wpartNumber' = partNumber
                  /\ UNCHANGED partsPromises
             ELSE /\ reqs' = Append(reqs, PartRequest(partNumber, chunk, uploadId))
                  /\ partsPromises' = Append(partsPromises, PartPromise(partNumber))
                  /\ UNCHANGED <<wpc, wchunk, wpartNumber>>
    /\ UNCHANGED <<constVars, result, uploadId, etags, multiUploadError, cpc, firstFailed, outOfOrder,
                   outcome, error>>
    /\ UNCHANGED chunkerVars

\* A rejected write() errors the sink: pipeTo, and so putObject, rejects with err,
\* unless pipeTo is already shutting down with the source's error.
WriteThrows(err) ==
    /\ outcome' = "failed"
    /\ error' = IF srcState = "errored" THEN SourceError ELSE err
    /\ wpc' = "idle"
    /\ wchunk' = NoChunk
    /\ wpartNumber' = 0

WriteReturns ==
    /\ wpc' = "idle"
    /\ wchunk' = NoChunk
    /\ wpartNumber' = 0
    /\ UNCHANGED <<outcome, error>>

\* The result of a single-shot PUT: the response's etag and x-amz-version-id headers
PutResult(e, v) == [etag |-> sanitizeETag(e), versionId |-> v]

\* The single-shot PUT is answered.
PutResponse ==
    /\ wpc = "put"
    /\ \E i \in RequestsOf("put") :
        /\ reqs[i].status = "inflight"
        /\ \/ \E e \in EtagValues, v \in VersionIds :
                /\ reqs' = [reqs EXCEPT ![i].status = "ok", ![i].etag = e, ![i].versionId = v]
                /\ result' = PutResult(e, v)
                /\ WriteReturns
           \/ /\ reqs' = [reqs EXCEPT ![i].status = "failed"]
              /\ WriteThrows(RequestError("put", 0))
              /\ UNCHANGED result
    /\ UNCHANGED <<constVars, queue, nextPartNumber, uploadId, etags, multiUploadError,
                   partsPromises, cpc, firstFailed, outOfOrder>>
    /\ UNCHANGED chunkerVars

\* Mutant: a response without UploadId is accepted.
HasUploadIdUnchecked(u) == TRUE

\* initiateNewMultipartUpload: if (!uploadId) throw ...
HasUploadId(u) == u # ""

\* The initiate request is answered: initiateNewMultipartUpload returns or throws,
\* and on return write() goes on to upload part 1.
InitiateResponse ==
    /\ wpc = "init"
    /\ \E i \in RequestsOf("initiate") :
        /\ reqs[i].status = "inflight"
        /\ \/ \E u \in UploadIdValues :
                IF ~HasUploadId(u)
                THEN /\ reqs' = [reqs EXCEPT ![i].status = "invalid"]
                     /\ WriteThrows(NoUploadIdError)
                     /\ UNCHANGED <<uploadId, partsPromises>>
                ELSE /\ uploadId' = u
                     /\ reqs' = Append([reqs EXCEPT ![i].status = "ok", ![i].uploadId = u],
                                       PartRequest(wpartNumber, wchunk, u))
                     /\ partsPromises' = Append(partsPromises, PartPromise(wpartNumber))
                     /\ WriteReturns
           \/ /\ reqs' = [reqs EXCEPT ![i].status = "failed"]
              /\ WriteThrows(RequestError("initiate", 0))
              /\ UNCHANGED <<uploadId, partsPromises>>
    /\ UNCHANGED <<constVars, queue, result, nextPartNumber, etags, multiUploadError,
                   cpc, firstFailed, outOfOrder>>
    /\ UNCHANGED chunkerVars

\* Mutant: the promise of a part upload is never settled.
SettleNever(partNumber) == partsPromises

\* The promise pushed for this part number is settled (its .catch handler makes every
\* outcome a fulfilment).
Settle(partNumber) ==
    [j \in 1..Len(partsPromises) |->
        IF partsPromises[j].part = partNumber
        THEN [partsPromises[j] EXCEPT !.state = "fulfilled"] ELSE partsPromises[j]]

\* The .then handler of a part upload: etags.push({ part: partNumber, etag })
PushEtag(list, partNumber, e) == Append(list, [part |-> partNumber, etag |-> StripQuotes(e)])

\* Mutant: the .catch handler swallows the error.
CatchPartErrorIgnored(latched, err) == latched

\* Mutant: every failure overwrites the latched error.
CatchPartErrorLastWins(latched, err) == err

\* The .catch handler of a part upload: if (!multiUploadError) multiUploadError = err
CatchPartError(latched, err) == IF latched = NoError THEN err ELSE latched

\* One upload-part request is answered; any in-flight one may be next.
PartResponse ==
    /\ \E i \in RequestsOf("part") :
        /\ reqs[i].status = "inflight"
        /\ \/ \E e \in EtagValues :
                /\ reqs' = [reqs EXCEPT ![i].status = "ok", ![i].etag = e]
                /\ etags' = PushEtag(etags, reqs[i].partNumber, e)
                /\ UNCHANGED multiUploadError
           \/ /\ reqs' = [reqs EXCEPT ![i].status = "failed"]
              /\ multiUploadError' =
                     CatchPartError(multiUploadError, RequestError("part", reqs[i].partNumber))
              /\ UNCHANGED etags
        /\ partsPromises' = Settle(reqs[i].partNumber)
        /\ firstFailed' = IF firstFailed = 0 /\ reqs'[i].status = "failed"
                          THEN reqs[i].partNumber ELSE firstFailed
        /\ outOfOrder' = (outOfOrder \/ \E j \in RequestsOf("part") :
                              /\ reqs[j].partNumber < reqs[i].partNumber
                              /\ reqs[j].status = "inflight")
    /\ UNCHANGED <<constVars, queue, result, nextPartNumber, uploadId, wpc, wchunk,
                   wpartNumber, cpc, outcome, error>>
    /\ UNCHANGED chunkerVars

\* Mutant: close() has no branch for an upload that never wrote anything.
CloseBranchWithoutCheck(res, uid) == IF uid # "" /\ res = NoResult THEN "multipart" ELSE "single"

\* pipeTo shuts down after a source error: it waits for the write() in progress to
\* settle, then aborts the sink (which has no abort handler) and rejects with the
\* source's error. Part uploads in flight are not waited for.
PipeAborts ==
    /\ srcState = "errored"
    /\ outcome = "running"
    /\ wpc = "idle"
    /\ outcome' = "failed"
    /\ error' = SourceError
    /\ UNCHANGED <<constVars, queue, result, nextPartNumber, uploadId, etags,
                   multiUploadError, partsPromises, wpc, wchunk, wpartNumber, cpc, reqs,
                   firstFailed, outOfOrder>>
    /\ UNCHANGED chunkerVars

\* The branch close() takes: if (result) ... else if (uploadId) ... else throw
CloseBranch(res, uid) ==
    IF res # NoResult THEN "single" ELSE IF uid # "" THEN "multipart" ELSE "nothing"

\* close() up to its first await
CloseStart ==
    /\ outcome = "running"
    /\ srcState = "ended"
    /\ queue = <<>>
    /\ wpc = "idle"
    /\ cpc = "none"
    /\ IF CloseBranch(result, uploadId) = "single"
       THEN /\ cpc' = "done"
            /\ outcome' = "success"
            /\ UNCHANGED error
       ELSE IF CloseBranch(result, uploadId) = "multipart"
       THEN /\ cpc' = "parts"
            /\ UNCHANGED <<outcome, error>>
       ELSE /\ cpc' = "done"
            /\ outcome' = "failed"
            /\ error' = ClosedWithoutData
    /\ UNCHANGED <<constVars, queue, result, nextPartNumber, uploadId, etags,
                   multiUploadError, partsPromises, wpc, wchunk, wpartNumber, reqs, firstFailed, outOfOrder>>
    /\ UNCHANGED chunkerVars

\* Mutant: close() does not wait for the part uploads.
AllSettledWithoutWaiting(promises) == TRUE

\* await Promise.all(partsPromises) has resolved
AllSettled(promises) == \A j \in 1..Len(promises) : promises[j].state = "fulfilled"

\* close() after await Promise.all(partsPromises)
CloseAfterParts ==
    /\ cpc = "parts"
    /\ AllSettled(partsPromises)
    /\ IF multiUploadError # NoError
       THEN /\ cpc' = "done"
            /\ outcome' = "failed"
            /\ error' = multiUploadError
            /\ UNCHANGED <<etags, reqs>>
       ELSE /\ etags' = SortEtags(etags)
            /\ reqs' = Append(reqs, Request("complete", 0, uploadId, NoHeaders, <<>>, etags'))
            /\ cpc' = "complete"
            /\ UNCHANGED <<outcome, error>>
    /\ UNCHANGED <<constVars, queue, result, nextPartNumber, uploadId, multiUploadError,
                   partsPromises, wpc, wchunk, wpartNumber, firstFailed, outOfOrder>>
    /\ UNCHANGED chunkerVars

\* The result of completeMultipartUpload: the ETag element of the response body and
\* the x-amz-version-id header
CompleteResult(e, v) == [etag |-> sanitizeETag(e), versionId |-> v]

\* The complete request is answered: completeMultipartUpload returns or throws.
CompleteResponse ==
    /\ cpc = "complete"
    /\ \E i \in RequestsOf("complete") :
        /\ reqs[i].status = "inflight"
        /\ \/ \E e \in EtagValues, v \in VersionIds :
                /\ reqs' = [reqs EXCEPT ![i].status = "ok", ![i].etag = e, ![i].versionId = v]
                /\ result' = CompleteResult(e, v)
                /\ outcome' = "success"
                /\ UNCHANGED error
           \/ /\ reqs' = [reqs EXCEPT ![i].status = "failed"]
              /\ outcome' = "failed"
              /\ error' = RequestError("complete", 0)
              /\ UNCHANGED result
    /\ cpc' = "done"
    /\ UNCHANGED <<constVars, queue, nextPartNumber, uploadId, etags, multiUploadError,
                   partsPromises, wpc, wchunk, wpartNumber, firstFailed, outOfOrder>>
    /\ UNCHANGED chunkerVars

\* ---------------------------------------------------------- specification

\* ------------------------------------------- putObject: size and part size
\* A byte count, kept as whole MiB plus a small signed number of bytes, so that 5 TiB
\* and its neighbours are exact (the code's doubles are exact up to 2^53).
B(m, o) == [undef |-> FALSE, mib |-> m, off |-> o]
Undefined == [undef |-> TRUE, mib |-> 0, off |-> 0]
Less(a, b) == a.mib < b.mib \/ (a.mib = b.mib /\ a.off < b.off)
Times(a, n) == B(a.mib * n, a.off * n)
Plus(a, b) == B(a.mib + b.mib, a.off + b.off)

minimumPartSize == B(5, 0)
maximumPartSize == B(5 * 1024, 0)
maxObjectSize == B(5 * 1024 * 1024, 0)
\* let partSize = 64 * 1024 * 1024, and partSize += 16 * 1024 * 1024
firstPartSize == B(64, 0)
partSizeStep == B(16, 0)
maxParts == 10000

\* (partSize * 10_000) > size
FitsInclusive(p, s) == ~Less(Times(p, maxParts), s)
Fits(p, s) == Less(s, Times(p, maxParts))

\* the size calculatePartSize works with
AssumedSize(s) == IF s.undef THEN maxObjectSize ELSE s

\* the range test of putObject: neither partSize < minimumPartSize nor > maximumPartSize
InRangeExclusive(p) == Less(minimumPartSize, p) /\ Less(p, maximumPartSize)
InRange(p) == ~Less(p, minimumPartSize) /\ ~Less(maximumPartSize, p)

\* calculatePartSize as a function, for a size it accepts
RECURSIVE CalcFrom(_, _)
CalcFrom(p, s) == IF Fits(p, s) THEN p ELSE CalcFrom(Plus(p, partSizeStep), s)
CalculatedPartSize(s) == CalcFrom(firstPartSize, AssumedSize(s))

Candidate(k) == B(firstPartSize.mib + k * partSizeStep.mib, 0)
SizeChoices ==
    {Undefined, B(0, -1), B(0, 0), B(0, 1)}
      \cup {B(Candidate(k).mib * maxParts, o) : k \in 0..MaxSteps, o \in {-1, 0, 1}}
      \cup {Plus(maxObjectSize, B(0, o)) : o \in {-1, 0, 1}}
PartSizeChoices ==
    {Undefined, B(0, 0), B(5, -1), B(5, 0), B(64, 0), B(5 * 1024, 0), B(5 * 1024, 1)}
DetectedChoices == {Undefined, B(0, 1), B(64, 0)}

Throw(name) ==
    /\ ppc' = "thrown"
    /\ thrown' = name

\* "Validate the size parameter"
ValidateSize ==
    /\ ppc = "validate"
    /\ IF ~options.size.undef
       THEN IF ~detected.undef /\ options.size # detected
            THEN Throw("InvalidArgumentError") /\ UNCHANGED size
            ELSE IF Less(options.size, B(0, 0))
            THEN Throw("InvalidArgumentError") /\ UNCHANGED size
            ELSE size' = options.size /\ ppc' = "select" /\ UNCHANGED thrown
       ELSE size' = detected /\ ppc' = "select" /\ UNCHANGED thrown
    /\ UNCHANGED <<options, detected, calcPartSize, putPartSize>>

\* options?.partSize ?? this.calculatePartSize(size), up to the loop of calculatePartSize
SelectPartSize ==
    /\ ppc = "select"
    /\ IF ~options.partSize.undef
       THEN /\ putPartSize' = options.partSize
            /\ ppc' = "range"
            /\ UNCHANGED <<calcPartSize, thrown>>
       ELSE IF Less(maxObjectSize, AssumedSize(size))
       THEN Throw("TypeError") /\ UNCHANGED <<calcPartSize, putPartSize>>
       ELSE /\ calcPartSize' = firstPartSize
            /\ ppc' = "calc"
            /\ UNCHANGED <<putPartSize, thrown>>
    /\ UNCHANGED <<options, detected, size>>

\* one turn of the loop of calculatePartSize
CalcLoop ==
    /\ ppc = "calc"
    /\ IF Fits(calcPartSize, AssumedSize(size))
       THEN /\ putPartSize' = calcPartSize
            /\ ppc' = "range"
            /\ UNCHANGED calcPartSize
       ELSE /\ calcPartSize' = Plus(calcPartSize, partSizeStep)
            /\ UNCHANGED <<putPartSize, ppc>>
    /\ UNCHANGED <<options, detected, size, thrown>>

\* the range check; when it passes, the pipeline is built and awaited
CheckRange ==
    /\ ppc = "range"
    /\ IF InRange(putPartSize)
       THEN ppc' = "piping" /\ UNCHANGED thrown
       ELSE Throw("InvalidArgumentError")
    /\ UNCHANGED <<options, detected, size, calcPartSize, putPartSize>>


\* ------------------------------------------------- request paths and URLs
\* A string is a sequence of characters. A run of letters, digits and '-' that every
\* encoder and decoder below passes through unchanged is written as one element.
Words == {"a", "k", "v", "bucket", "X-Amz-", "Algorithm", "AWS4-HMAC-SHA256", "Credential",
          "AK", "scope", "Date", "20200101T000000Z", "Expires", "60", "SignedHeaders",
          "host", "Signature", "sig"}
NameChars == {"a", "/", "+", "!", " "}
ValueChars == {"a", " ", "+"}

\* "%" + byte.toString(16).padStart(2, "0").toUpperCase()
Hex(c) ==
    CASE c = " " -> <<"%", "2", "0">>
      [] c = "!" -> <<"%", "2", "1">>
      [] c = "%" -> <<"%", "2", "5">>
      [] c = "&" -> <<"%", "2", "6">>
      [] c = "+" -> <<"%", "2", "B">>
      [] c = "/" -> <<"%", "2", "F">>
      [] c = "=" -> <<"%", "3", "D">>
      [] c = "?" -> <<"%", "3", "F">>
Unhex(h, l) ==
    CASE <<h, l>> = <<"2", "0">> -> " "
      [] <<h, l>> = <<"2", "1">> -> "!"
      [] <<h, l>> = <<"2", "5">> -> "%"
      [] <<h, l>> = <<"2", "6">> -> "&"
      [] <<h, l>> = <<"2", "B">> -> "+"
      [] <<h, l>> = <<"2", "F">> -> "/"
      [] <<h, l>> = <<"3", "D">> -> "="
      [] <<h, l>> = <<"3", "F">> -> "?"

RECURSIVE PercentEncode(_, _)
\* every character outside keep becomes its escape
PercentEncode(str, keep) ==
    IF str = <<>> THEN <<>>
    ELSE (IF Head(str) \in keep THEN <<Head(str)>> ELSE Hex(Head(str)))
            \o PercentEncode(Tail(str), keep)

RECURSIVE PercentDecode(_)
PercentDecode(str) ==
    IF str = <<>> THEN <<>>
    ELSE IF Head(str) = "%"
    THEN <<Unhex(str[2], str[3])>> \o PercentDecode(SubSeq(str, 4, Len(str)))
    ELSE <<Head(str)>> \o PercentDecode(Tail(str))

ALLOWED_BYTES == {"-", ".", "_", "~"}
awsUriEncode(string, allowSlashes) ==
    PercentEncode(string, Words \cup ALLOWED_BYTES \cup (IF allowSlashes THEN {"/"} ELSE {}))
encodeURIComponent(string) ==
    PercentEncode(string, Words \cup {"-", "_", ".", "!", "~", "*", "'", "(", ")"})
decodeURIComponent(string) == PercentDecode(string)

RECURSIVE SplitFrom(_, _, _, _)
SplitFrom(str, sep, pieces, piece) ==
    IF str = <<>> THEN Append(pieces, piece)
    ELSE IF Head(str) = sep THEN SplitFrom(Tail(str), sep, Append(pieces, piece), <<>>)
    ELSE SplitFrom(Tail(str), sep, pieces, Append(piece, Head(str)))
\* string.split(sep)
Split(str, sep) == SplitFrom(str, sep, <<>>, <<>>)

RECURSIVE Join(_, _)
\* array.join(sep)
Join(strs, sep) ==
    IF strs = <<>> THEN <<>>
    ELSE IF Len(strs) = 1 THEN strs[1]
    ELSE strs[1] \o sep \o Join(Tail(strs), sep)

RECURSIVE ReplaceAll(_, _, _)
ReplaceAll(str, c, by) ==
    IF str = <<>> THEN <<>>
    ELSE (IF Head(str) = c THEN by ELSE <<Head(str)>>) \o ReplaceAll(Tail(str), c, by)

RECURSIVE ReplaceFirst(_, _, _)
\* string.replace(c, by) with a string pattern: the first occurrence only
ReplaceFirst(str, c, by) ==
    IF str = <<>> THEN <<>>
    ELSE IF Head(str) = c THEN by \o Tail(str)
    ELSE <<Head(str)>> \o ReplaceFirst(Tail(str), c, by)

\* URLSearchParams: the application/x-www-form-urlencoded serializer and parser
FormEncode(str) ==
    ReplaceAll(PercentEncode(str, Words \cup {"*", "-", ".", "_", " "}), " ", <<"+">>)
FormDecode(str) == PercentDecode(ReplaceAll(str, "+", <<" ">>))
FormSerialize(pairs) ==
    Join([i \in 1..Len(pairs) |-> FormEncode(pairs[i].key) \o <<"=">> \o FormEncode(pairs[i].val)],
         <<"&">>)
FormParsePair(element) ==
    LET pieces == Split(element, "=")
    IN [key |-> FormDecode(pieces[1]), val |-> FormDecode(Join(Tail(pieces), <<"=">>))]
FormParse(str) ==
    LET elements == SelectSeq(Split(str, "&"), LAMBDA e : e # <<>>)
    IN [i \in 1..Len(elements) |-> FormParsePair(elements[i])]

\* ordering of strings by code unit, as Array.prototype.sort() compares them
Code(c) ==
    CASE c = "%" -> 37 [] c = "&" -> 38 [] c = "+" -> 43 [] c = "-" -> 45 [] c = "/" -> 47
      [] c \in {"0", "2", "3", "20200101T000000Z"} -> 50
      [] c = "60" -> 54 [] c = "=" -> 61
      [] c \in {"A", "AK", "Algorithm", "AWS4-HMAC-SHA256"} -> 65 [] c = "B" -> 66
      [] c = "Credential" -> 67 [] c \in {"D", "Date"} -> 68 [] c = "Expires" -> 69
      [] c = "F" -> 70 [] c \in {"Signature", "SignedHeaders"} -> 83 [] c = "X-Amz-" -> 88
      [] c = "a" -> 97 [] c = "bucket" -> 98 [] c = "host" -> 104 [] c = "k" -> 107
      [] c \in {"scope", "sig"} -> 115 [] c = "v" -> 118
      [] OTHER -> 0
RECURSIVE StrLess(_, _)
StrLess(x, y) ==
    IF y = <<>> THEN FALSE
    ELSE IF x = <<>> THEN TRUE
    ELSE IF Head(x) = Head(y) THEN StrLess(Tail(x), Tail(y))
    ELSE Code(Head(x)) < Code(Head(y))
RECURSIVE InsertString(_, _)
InsertString(str, sorted) ==
    IF sorted = <<>> THEN <<str>>
    ELSE IF StrLess(str, Head(sorted)) THEN <<str>> \o sorted
    ELSE <<Head(sorted)>> \o InsertString(str, Tail(sorted))
RECURSIVE SortStrings(_)
SortStrings(strs) ==
    IF strs = <<>> THEN <<>> ELSE InsertString(Head(strs), SortStrings(Tail(strs)))

\* path.split("?")[0] and path.split("?")[1]
ResourceOf(p) == Split(p, "?")[1]
QueryOf(p) == LET pieces == Split(p, "?") IN IF Len(pieces) > 1 THEN pieces[2] ELSE <<>>

\* canonical URI and canonical query string of getCanonicalRequest
CanonicalPair(element) ==
    LET pieces == Split(element, "=")
        val == IF Len(pieces) > 1 THEN pieces[2] ELSE <<>>
    IN awsUriEncode(decodeURIComponent(pieces[1]), FALSE) \o <<"=">>
          \o awsUriEncode(decodeURIComponent(val), FALSE)
getCanonicalRequest(p) ==
    LET requestQuery == QueryOf(p)
        elements == Split(requestQuery, "&")
    IN [uri |-> awsUriEncode(ResourceOf(p), TRUE),
        query |-> IF requestQuery # <<>>
                  THEN Join(SortStrings([i \in 1..Len(elements) |-> CanonicalPair(elements[i])]),
                            <<"&">>)
                  ELSE <<>>]

Pair(k, v) == [key |-> k, val |-> v]
\* newQuery.set(...) of presignV4, for names the query does not hold yet
SignedQueryParameters ==
    << Pair(<<"X-Amz-", "Algorithm">>, <<"AWS4-HMAC-SHA256">>),
       Pair(<<"X-Amz-", "Credential">>, <<"AK", "/", "scope">>),
       Pair(<<"X-Amz-", "Date">>, <<"20200101T000000Z">>),
       Pair(<<"X-Amz-", "Expires">>, <<"60">>),
       Pair(<<"X-Amz-", "SignedHeaders">>, <<"host">>) >>

ObjectOperations == {"deleteObject", "statObject", "getObject"}
ParameterChoices ==
    LET vals == SeqsUpTo(ValueChars, MaxValLen)
    IN {<<>>} \cup {<<Pair(<<"k">>, v)>> : v \in vals}
              \cup {<<Pair(<<"k">>, v), Pair(<<"v">>, <<" ">>)>> : v \in vals}

\* string queries: "uploads", "k=a", and values that hold '=' themselves
RawQueryChoices ==
    {<<"k">>, <<"k", "=", "a">>, <<"k", "=", "a", "=", "a">>, <<"k", "=", "=">>,
     <<"k", "=", "a", "&", "v", "=", "a", "=">>}

\* buildRequestOptions, path style, with an empty path prefix
buildRequestOptions ==
    /\ upc = "start"
    /\ LET queryAsString == IF op = "makeRequest" THEN rawQuery
                            ELSE ReplaceFirst(FormSerialize(parameters), "+", <<"%", "2", "0">>)
       IN path' = <<"/", "bucket", "/">> \o objectName
                    \o (IF queryAsString # <<>> THEN <<"?">> \o queryAsString ELSE <<>>)
    /\ upc' = "built"
    /\ UNCHANGED <<op, objectName, parameters, rawQuery, url, canonical>>

\* makeRequest: the request is signed over `path` and fetch is given protocol, host, path
makeRequest ==
    /\ upc = "built"
    /\ op \in ObjectOperations \cup {"makeRequest"}
    /\ canonical' = getCanonicalRequest(path)
    /\ url' = path
    /\ upc' = "done"
    /\ UNCHANGED <<op, objectName, parameters, rawQuery, path>>

presignV4 ==
    /\ upc = "built"
    /\ op = "getPresignedUrl"
    /\ LET resource == ResourceOf(path)
           newQuery == FormParse(QueryOf(path)) \o SignedQueryParameters
           newQueryString == ReplaceFirst(FormSerialize(newQuery), "+", <<"%", "2", "0">>)
           signingPath == resource \o <<"?">> \o newQueryString
           segments == Split(resource, "/")
           encodedPath == Join([i \in 1..Len(segments) |-> encodeURIComponent(segments[i])],
                               <<"/">>)
       IN /\ canonical' = getCanonicalRequest(signingPath)
          /\ url' = encodedPath \o <<"?">> \o newQueryString
                       \o <<"&", "X-Amz-", "Signature", "=", "sig">>
    /\ upc' = "done"
    /\ UNCHANGED <<op, objectName, parameters, rawQuery, path>>

NoRequest ==
    /\ op = "getObject"
    /\ objectName = <<"a">>
    /\ parameters = <<>>
    /\ rawQuery = <<>>
    /\ upc = "start"
    /\ path = <<>>
    /\ url = <<>>
    /\ canonical = [uri |-> <<>>, query |-> <<>>]

\* ------------------------------------------------------------ signing
\* Header names are sequences of characters.
UpperCase == <<"A", "B", "C", "D", "E", "F", "G", "H", "I", "J", "K", "L", "M", "N", "O", "P", "Q", "R", "S", "T", "U", "V", "W", "X", "Y", "Z">>
LowerCase == <<"a", "b", "c", "d", "e", "f", "g", "h", "i", "j", "k", "l", "m", "n", "o", "p", "q", "r", "s", "t", "u", "v", "w", "x", "y", "z">>
Digits == <<"0", "1", "2", "3", "4", "5", "6", "7", "8", "9">>
IndexIn(c, chars) == CHOOSE i \in 1..Len(chars) : chars[i] = c
IsIn(c, chars) == \E i \in 1..Len(chars) : chars[i] = c
\* UTF-16 code unit of a character of a header name
CodeUnit(c) ==
    IF IsIn(c, UpperCase) THEN 64 + IndexIn(c, UpperCase)
    ELSE IF IsIn(c, LowerCase) THEN 96 + IndexIn(c, LowerCase)
    ELSE IF IsIn(c, Digits) THEN 47 + IndexIn(c, Digits)
    ELSE CASE c = "-" -> 45 [] c = "_" -> 95
\* String.prototype.toLowerCase
toLowerCase(str) ==
    [i \in 1..Len(str) |->
        IF IsIn(str[i], UpperCase) THEN LowerCase[IndexIn(str[i], UpperCase)] ELSE str[i]]
RECURSIVE CodeUnitLess(_, _)
\* x sorts before y when compared by code units (Array.prototype.sort without comparator)
CodeUnitLess(x, y) ==
    IF y = <<>> THEN FALSE
    ELSE IF x = <<>> THEN TRUE
    ELSE IF Head(x) = Head(y) THEN CodeUnitLess(Tail(x), Tail(y))
    ELSE CodeUnit(Head(x)) < CodeUnit(Head(y))
RECURSIVE InsertName(_, _)
InsertName(name, sorted) ==
    IF sorted = <<>> THEN <<name>>
    ELSE IF CodeUnitLess(name, Head(sorted)) THEN <<name>> \o sorted
    ELSE <<Head(sorted)>> \o InsertName(name, Tail(sorted))
RECURSIVE SortNames(_)
SortNames(names) ==
    IF names = <<>> THEN <<>> ELSE InsertName(Head(names), SortNames(Tail(names)))

HeaderNameChoices ==
    {<<"H", "o", "s", "t">>,
     <<"x", "-", "a", "m", "z", "-", "c", "o", "n", "t", "e", "n", "t", "-", "s", "h", "a", "2", "5", "6">>,
     <<"X", "-", "A", "m", "z", "-", "D", "a", "t", "e">>,
     <<"x", "-", "a", "m", "z", "-", "d", "a", "t", "e">>,
     <<"C", "o", "n", "t", "e", "n", "t", "-", "T", "y", "p", "e">>,
     <<"U", "S", "E", "R", "-", "A", "G", "E", "N", "T">>,
     <<"a", "u", "t", "h", "o", "r", "i", "z", "a", "t", "i", "o", "n">>,
     <<"S", "e", "t", "-", "C", "o", "o", "k", "i", "e">>}
SetCookie == <<"s", "e", "t", "-", "c", "o", "o", "k", "i", "e">>

\* Headers.prototype.has: names match without regard to case
HeadersHas(list, name) ==
    \E i \in 1..Len(list) : toLowerCase(list[i]) = toLowerCase(name)
\* Headers.prototype.keys: the names in lower case, sorted by code unit, the headers of
\* one name combined into one entry, except set-cookie, which has an entry per header
HeadersKeys(list) ==
    LET lowered == [i \in 1..Len(list) |-> toLowerCase(list[i])]
        Kept(i) == lowered[i] = SetCookie \/ \A j \in 1..(i - 1) : lowered[j] # lowered[i]
        indices == SelectSeq([i \in 1..Len(list) |-> i], Kept)
    IN SortNames([k \in 1..Len(indices) |-> lowered[indices[k]]])

ignoredHeaders ==
    {<<"a", "u", "t", "h", "o", "r", "i", "z", "a", "t", "i", "o", "n">>,
     <<"c", "o", "n", "t", "e", "n", "t", "-", "l", "e", "n", "g", "t", "h">>,
     <<"c", "o", "n", "t", "e", "n", "t", "-", "t", "y", "p", "e">>,
     <<"u", "s", "e", "r", "-", "a", "g", "e", "n", "t">>}
getHeadersToSign(headers) ==
    LET Signed(key) == toLowerCase(key) \notin ignoredHeaders
    IN SortNames(SelectSeq(HeadersKeys(headers), Signed))

AccessKeyChoices == {"", "AK"}
SecretKeyChoices == {"", "SK"}
ExpiryChoices == {-1, 0, 1, 60, 604800, 604801}
NoCall == [fn |-> "none"]
Thrown(fn, name, ak, sk, e) ==
    [fn |-> fn, accessKey |-> ak, secretKey |-> sk, expirySeconds |-> e,
     thrown |-> name, signedHeaders |-> <<>>, output |-> "none"]
Returned(fn, ak, sk, e, signed, out) ==
    [fn |-> fn, accessKey |-> ak, secretKey |-> sk, expirySeconds |-> e,
     thrown |-> "", signedHeaders |-> signed, output |-> out]

ExpiryInvalidBelowTwo(e) == e < 2 \/ e > 604800
ExpiryInvalid(e) == e < 1 \/ e > 604800

\* the caller (Client.makeRequest, Client.getPresignedUrl) fills the request's headers
HeadersAppend ==
    /\ signCall = NoCall
    /\ Len(headerList) < MaxHeaders
    /\ \E name \in HeaderNameChoices : headerList' = Append(headerList, name)
    /\ UNCHANGED signCall

signV4 ==
    /\ signCall = NoCall
    /\ \E ak \in AccessKeyChoices, sk \in SecretKeyChoices :
          signCall' =
             IF ak = "" THEN Thrown("signV4", "AccessKeyRequiredError", ak, sk, 0)
             ELSE IF sk = "" THEN Thrown("signV4", "SecretKeyRequiredError", ak, sk, 0)
             ELSE IF ~HeadersHas(headerList, <<"x", "-", "a", "m", "z", "-", "c", "o", "n", "t", "e", "n", "t", "-", "s", "h", "a", "2", "5", "6">>)
                  THEN Thrown("signV4", "Error", ak, sk, 0)
             ELSE Returned("signV4", ak, sk, 0, getHeadersToSign(headerList), "authorization")
    /\ UNCHANGED headerList

presignV4Call ==
    /\ signCall = NoCall
    /\ \E ak \in AccessKeyChoices, sk \in SecretKeyChoices, e \in ExpiryChoices :
          signCall' =
             IF ak = "" THEN Thrown("presignV4", "AccessKeyRequiredError", ak, sk, e)
             ELSE IF sk = "" THEN Thrown("presignV4", "SecretKeyRequiredError", ak, sk, e)
             ELSE IF ExpiryInvalid(e) THEN Thrown("presignV4", "InvalidExpiryError", ak, sk, e)
             ELSE IF ~HeadersHas(headerList, <<"H", "o", "s", "t">>)
                  THEN Thrown("presignV4", "Error", ak, sk, e)
             ELSE Returned("presignV4", ak, sk, e, getHeadersToSign(headerList), "url")
    /\ UNCHANGED headerList

presignPostV4 ==
    /\ signCall = NoCall
    /\ \E ak \in AccessKeyChoices, sk \in SecretKeyChoices, e \in ExpiryChoices :
          signCall' =
             IF ak = "" THEN Thrown("presignPostV4", "AccessKeyRequiredError", ak, sk, e)
             ELSE IF sk = "" THEN Thrown("presignPostV4", "SecretKeyRequiredError", ak, sk, e)
             ELSE IF ExpiryInvalid(e)
                  THEN Thrown("presignPostV4", "InvalidExpiryError", ak, sk, e)
             ELSE Returned("presignPostV4", ak, sk, e, <<>>, "url and fields")
    /\ UNCHANGED headerList

NoSigning ==
    /\ headerList = <<>>
    /\ signCall = NoCall

\* ------------------------------------------------------------ listing
NotGiven == [given |-> FALSE, n |-> 0]
NoPage == [isTruncated |-> FALSE, nextContinuationToken |-> ""]
Given(n) == [given |-> TRUE, n |-> n]
MaxResultsChoices == {NotGiven} \cup {Given(n) : n \in 0..MaxResults}
PageSizeChoices == {NotGiven} \cup {Given(n) : n \in {0, 1, 2, 1000, 1001}}

\* options.pageSize ?? 1_000
pageSize == IF listOptions.pageSize.given THEN listOptions.pageSize.n ELSE 1000
\* options.maxResults ? Math.min(pageSize, options.maxResults - resultCount) : pageSize
\* (the condition is the option's truthiness: undefined and 0 are both false)
maxKeys(count) ==
    IF listOptions.maxResults.given /\ listOptions.maxResults.n # 0
    THEN Min(pageSize, listOptions.maxResults.n - count) ELSE pageSize

\* the generator's first step: the pageSize check
ListStart ==
    /\ lpc = "start"
    /\ lpc' = IF pageSize < 1 \/ pageSize > 1000 THEN "thrown" ELSE "loop"
    /\ UNCHANGED <<listOptions, continuationToken, resultCount, toYield, root, yielded,
                   listRequests, pages>>

\* top of the loop: return when nothing more may be fetched, else request the next page
ListRequest ==
    /\ lpc = "loop"
    /\ IF maxKeys(resultCount) = 0
       THEN lpc' = "done" /\ UNCHANGED listRequests
       ELSE /\ Len(listRequests) < MaxPages
            /\ lpc' = "awaiting"
            /\ listRequests' = Append(listRequests,
                                      [maxKeys |-> maxKeys(resultCount), yielded |-> yielded,
                                       token |-> continuationToken])
    /\ UNCHANGED <<listOptions, continuationToken, resultCount, toYield, root, yielded,
                   pages>>

\* after the entries of a page: stop, fail, or go on with the page's continuation token
AfterPage(r) ==
    IF ~r.isTruncated THEN "done"
    ELSE IF r.nextContinuationToken = "" THEN "thrown" ELSE "loop"
TokenAfterPage(r) ==
    IF r.isTruncated /\ r.nextContinuationToken # "" THEN r.nextContinuationToken
    ELSE continuationToken

\* the page arrives: some common prefixes and objects (the server may hold fewer than were
\* asked for, or send more), IsTruncated, and a NextContinuationToken or none
ListResponse ==
    /\ lpc = "awaiting"
    /\ \E n \in 0..Min(listRequests[Len(listRequests)].maxKeys + 1, MaxEntries),
          r \in [isTruncated : BOOLEAN, nextContinuationToken : {"", "next"}] :
          /\ resultCount' = resultCount + n
          /\ toYield' = n
          /\ pages' = Append(pages, n)
          /\ root' = r
          /\ lpc' = IF n > 0 THEN "yielding" ELSE AfterPage(r)
          /\ continuationToken' = IF n > 0 THEN continuationToken ELSE TokenAfterPage(r)
    /\ UNCHANGED <<listOptions, yielded, listRequests>>

\* for (const entry of toYield) yield entry; after the last one, look at IsTruncated
ListYield ==
    /\ lpc = "yielding"
    /\ toYield' = toYield - 1
    /\ yielded' = yielded + 1
    /\ lpc' = IF toYield > 1 THEN "yielding" ELSE AfterPage(root)
    /\ continuationToken' = IF toYield > 1 THEN continuationToken ELSE TokenAfterPage(root)
    /\ UNCHANGED <<listOptions, resultCount, root, listRequests, pages>>

NoListing ==
    /\ listOptions = [maxResults |-> NotGiven, pageSize |-> NotGiven]
    /\ lpc = "start"
    /\ continuationToken = ""
    /\ resultCount = 0
    /\ toYield = 0
    /\ root = NoPage
    /\ yielded = 0
    /\ listRequests = <<>>
    /\ pages = <<>>

NoRest == NoSigning /\ NoListing

PipelineStart ==
    /\ srcState = "open"
    /\ input = <<>>
    /\ seen = {}
    /\ heap = <<NewBuffer(partSize)>>
    /\ buffer = 1
    /\ offset = 0
    /\ emitted = <<>>
    /\ queue = <<>>
    /\ result = NoResult
    /\ nextPartNumber = 1
    /\ uploadId = ""
    /\ etags = <<>>
    /\ multiUploadError = NoError
    /\ partsPromises = <<>>
    /\ wpc = "idle"
    /\ wchunk = NoChunk
    /\ wpartNumber = 0
    /\ cpc = "none"
    /\ reqs = <<>>
    /\ firstFailed = 0
    /\ outOfOrder = FALSE
    /\ outcome = "running"
    /\ error = NoError

\* The pipeline is studied from the point where putObject has accepted its arguments
\* (here: a stream of unknown size and no partSize option); its byte counts are scaled.
Init ==
    /\ partSize \in 1..MaxPartSize
    /\ metadata \in MetadataChoices
    /\ PipelineStart
    /\ options = [size |-> Undefined, partSize |-> Undefined]
    /\ detected = Undefined
    /\ size = Undefined
    /\ calcPartSize = CalculatedPartSize(Undefined)
    /\ putPartSize = CalculatedPartSize(Undefined)
    /\ ppc = "piping"
    /\ thrown = ""
    /\ NoRequest
    /\ NoRest

Next ==
    \/ SourceChunk
    \/ Flush
    \/ SourceErrors
    \/ PipeAborts
    \/ Write
    \/ PutResponse
    \/ InitiateResponse
    \/ PartResponse
    \/ CloseStart
    \/ CloseAfterParts
    \/ CompleteResponse

Spec == Init /\ [][Next]_vars

\* getResult(): throws while result is undefined
ResultNotReady == [thrown |-> "Result is not ready. await the stream first.", value |-> NoResult]
getResult == IF result = NoResult THEN ResultNotReady ELSE [thrown |-> "", value |-> result]

\* The pipeline when the runtime runs every step that is ready and every request is
\* answered: the stream ends (or errors), promise reactions run, responses arrive.
Fairness ==
    /\ WF_vars(Flush)
    /\ WF_vars(PipeAborts)
    /\ WF_vars(Write)
    /\ WF_vars(PutResponse)
    /\ WF_vars(InitiateResponse)
    /\ WF_vars(PartResponse)
    /\ WF_vars(CloseStart)
    /\ WF_vars(CloseAfterParts)
    /\ WF_vars(CompleteResponse)

LiveInit == Init /\ DOMAIN metadata = {}

SpecLive == LiveInit /\ [][Next]_vars /\ Fairness

\* putObject's argument checks alone, for every combination of the options.
pipelineVars == <<partSize, metadata, chunkerVars, queue, uploaderVars>>

PutInit ==
    /\ partSize = 1
    /\ metadata \in {m \in MetadataChoices : DOMAIN m = {}}
    /\ PipelineStart
    /\ options \in [size : SizeChoices, partSize : PartSizeChoices]
    /\ detected \in DetectedChoices
    /\ size = Undefined
    /\ calcPartSize = B(0, 0)
    /\ putPartSize = Undefined
    /\ ppc = "validate"
    /\ thrown = ""
    /\ NoRequest
    /\ NoRest

PutNext ==
    \/ ValidateSize /\ UNCHANGED <<pipelineVars, urlVars, restVars>>
    \/ SelectPartSize /\ UNCHANGED <<pipelineVars, urlVars, restVars>>
    \/ CalcLoop /\ UNCHANGED <<pipelineVars, urlVars, restVars>>
    \/ CheckRange /\ UNCHANGED <<pipelineVars, urlVars, restVars>>

SpecPutObject == PutInit /\ [][PutNext]_vars

\* Building, signing and sending (or presigning) the request of one object operation.
UrlInit ==
    /\ partSize = 1
    /\ metadata \in {m \in MetadataChoices : DOMAIN m = {}}
    /\ PipelineStart
    /\ options = [size |-> Undefined, partSize |-> Undefined]
    /\ detected = Undefined
    /\ size = Undefined
    /\ calcPartSize = B(0, 0)
    /\ putPartSize = Undefined
    /\ ppc = "validate"
    /\ thrown = ""
    /\ op \in ObjectOperations \cup {"getPresignedUrl", "makeRequest"}
    /\ objectName \in SeqsUpTo(NameChars, MaxNameLen) \ {<<>>}
    /\ IF op = "makeRequest"
       THEN parameters = <<>> /\ rawQuery \in RawQueryChoices
       ELSE parameters \in ParameterChoices /\ rawQuery = <<>>
    /\ upc = "start"
    /\ path = <<>>
    /\ url = <<>>
    /\ canonical = [uri |-> <<>>, query |-> <<>>]
    /\ NoRest

UrlNext ==
    \/ buildRequestOptions /\ UNCHANGED <<pipelineVars, putVars, restVars>>
    \/ makeRequest /\ UNCHANGED <<pipelineVars, putVars, restVars>>
    \/ presignV4 /\ UNCHANGED <<pipelineVars, putVars, restVars>>

SpecUrl == UrlInit /\ [][UrlNext]_vars

\* Signing: a request's headers are filled, then one of the three signing functions runs.
SignInit ==
    /\ partSize = 1
    /\ metadata \in {m \in MetadataChoices : DOMAIN m = {}}
    /\ PipelineStart
    /\ options = [size |-> Undefined, partSize |-> Undefined]
    /\ detected = Undefined
    /\ size = Undefined
    /\ calcPartSize = B(0, 0)
    /\ putPartSize = Undefined
    /\ ppc = "validate"
    /\ thrown = ""
    /\ NoRequest
    /\ NoSigning
    /\ NoListing

SignNext ==
    \/ HeadersAppend /\ UNCHANGED <<pipelineVars, putVars, urlVars, listVars>>
    \/ signV4 /\ UNCHANGED <<pipelineVars, putVars, urlVars, listVars>>
    \/ presignV4Call /\ UNCHANGED <<pipelineVars, putVars, urlVars, listVars>>
    \/ presignPostV4 /\ UNCHANGED <<pipelineVars, putVars, urlVars, listVars>>

SpecSign == SignInit /\ [][SignNext]_vars

\* Listing: one call of listObjectsGrouped, consumed to its end.
ListInit ==
    /\ partSize = 1
    /\ metadata \in {m \in MetadataChoices : DOMAIN m = {}}
    /\ PipelineStart
    /\ options = [size |-> Undefined, partSize |-> Undefined]
    /\ detected = Undefined
    /\ size = Undefined
    /\ calcPartSize = B(0, 0)
    /\ putPartSize = Undefined
    /\ ppc = "validate"
    /\ thrown = ""
    /\ NoRequest
    /\ NoSigning
    /\ listOptions \in [maxResults : MaxResultsChoices, pageSize : PageSizeChoices]
    /\ lpc = "start"
    /\ continuationToken = ""
    /\ resultCount = 0
    /\ toYield = 0
    /\ root = NoPage
    /\ yielded = 0
    /\ listRequests = <<>>
    /\ pages = <<>>

ListNext ==
    \/ ListStart /\ UNCHANGED <<pipelineVars, putVars, urlVars, signVars>>
    \/ ListRequest /\ UNCHANGED <<pipelineVars, putVars, urlVars, signVars>>
    \/ ListResponse /\ UNCHANGED <<pipelineVars, putVars, urlVars, signVars>>
    \/ ListYield /\ UNCHANGED <<pipelineVars, putVars, urlVars, signVars>>

SpecList == ListInit /\ [][ListNext]_vars

\* ------------------------------------------------------------------ claims
IsPart(r) == r.kind = "part"
\* The upload-part requests, in the order they were issued.
PartReqs == SelectSeq(reqs, IsPart)
Count(kind) == Cardinality(RequestsOf(kind))
FailedParts == {reqs[i].partNumber : i \in {j \in RequestsOf("part") : reqs[j].status = "failed"}}
AllRequestsSucceeded == \A i \in 1..Len(reqs) : reqs[i].status = "ok"

RECURSIVE Concat(_)
Concat(ss) == IF ss = <<>> THEN <<>> ELSE Head(ss) \o Concat(Tail(ss))
\* The bytes of all emitted chunks, concatenated in emission order.
EmittedBytes == Concat([i \in 1..Len(emitted) |-> ChunkBytes(heap, emitted[i])])

\* C1: an upload of N >= 1 chunks with a full-size first chunk in which every request
\* succeeded has issued exactly one initiate request, exactly N upload-part requests
\* numbered 1..N, one each, and exactly one complete request (and nothing else),
\* whatever the order of the part responses.
C1_ExactlyOneInitiateNPartsOneComplete ==
    (/\ cpc = "done"
     /\ Len(emitted) >= 1
     /\ emitted[1].len = partSize
     /\ AllRequestsSucceeded)
    => /\ Count("initiate") = 1
       /\ Count("complete") = 1
       /\ Count("put") = 0
       /\ Len(PartReqs) = Len(emitted)
       /\ \A k \in 1..Len(emitted) :
              Cardinality({i \in RequestsOf("part") : reqs[i].partNumber = k}) = 1

C1_Witness ==
    /\ cpc = "done"
    /\ outcome = "success"
    /\ Len(emitted) = 3
    /\ emitted[1].len = partSize
    /\ AllRequestsSucceeded
    /\ outOfOrder

\* C2: the part list of the complete request is sorted ascending by part number and has
\* exactly one entry per uploaded part, part k paired with the ETag (quotes stripped)
\* of part k's own response.
C2_CompleteListsPartsInOrder ==
    \A c \in RequestsOf("complete") :
        LET ps == reqs[c].parts
        IN /\ \A a, b \in 1..Len(ps) : a < b => ps[a].part < ps[b].part
           /\ {ps[a].part : a \in 1..Len(ps)} = {reqs[j].partNumber : j \in RequestsOf("part")}
           /\ \A a \in 1..Len(ps) : \E j \in RequestsOf("part") :
                  /\ reqs[j].partNumber = ps[a].part
                  /\ reqs[j].status = "ok"
                  /\ ps[a].etag = StripQuotes(reqs[j].etag)

C2_Witness ==
    /\ outOfOrder
    /\ \E c \in RequestsOf("complete") :
          /\ Len(reqs[c].parts) = 3
          /\ reqs[c].parts[1].etag # reqs[c].parts[2].etag

C4_SmallInputIsOnePut ==
    (srcState = "ended" /\ 0 < Len(input) /\ Len(input) < partSize) =>
        /\ Count("initiate") = 0 /\ Count("complete") = 0 /\ Count("part") = 0
        /\ Len(reqs) <= 1
        /\ outcome # "running" =>
              /\ Len(reqs) = 1
              /\ reqs[1].kind = "put"
              /\ reqs[1].payload = input
              /\ \A k \in DOMAIN metadata : /\ k \in DOMAIN reqs[1].headers
                                            /\ reqs[1].headers[k] = metadata[k]
              /\ outcome = "success" =>
                    /\ reqs[1].status = "ok"
                    /\ result = [etag |-> sanitizeETag(reqs[1].etag),
                                 versionId |-> reqs[1].versionId]

C4_Witness ==
    /\ srcState = "ended"
    /\ 0 < Len(input) /\ Len(input) < partSize
    /\ outcome = "success"
    /\ DOMAIN metadata # {}
    /\ result.etag = <<"a">>

\* C5: the chunks the chunker has emitted, concatenated (followed, while the stream
\* is open, by the bytes still buffered), are exactly the input bytes, for every
\* split of the input into chunks and every outChunkSize.
C5_ChunkerPreservesBytes ==
    IF srcState = "ended"
    THEN EmittedBytes = input
    ELSE EmittedBytes \o SubSeq(heap[buffer], 1, offset) = input

C5_Witness ==
    /\ srcState = "ended"
    /\ seen = {"empty", "big"}
    /\ Len(input) = MaxTotal
    /\ Range(input) = Bytes
    /\ Len(emitted) >= 2
    /\ emitted[Len(emitted)].atFlush

\* C6: every emitted chunk has 1..outChunkSize bytes; one shorter than outChunkSize
\* is the last one and was emitted by flush; transform emits full chunks only; and
\* flush emits nothing when the input length is a multiple of outChunkSize.
C6_ChunkSizes ==
    /\ \A i \in 1..Len(emitted) :
          /\ emitted[i].len >= 1
          /\ emitted[i].len <= outChunkSize
          /\ i < Len(emitted) => emitted[i].len = outChunkSize
          /\ emitted[i].len < outChunkSize => emitted[i].atFlush /\ i = Len(emitted)
          /\ ~emitted[i].atFlush => emitted[i].len = outChunkSize
    /\ (srcState = "ended" /\ Len(input) % outChunkSize = 0) =>
          \A i \in 1..Len(emitted) : ~emitted[i].atFlush

C6_Witness ==
    /\ srcState = "ended"
    /\ Len(emitted) >= 2
    /\ emitted[Len(emitted)].atFlush
    /\ emitted[Len(emitted)].len < outChunkSize

\* C7: a stream that ends after delivering zero bytes makes no request and fails
\* with "Stream was closed without uploading any data."; close() can always run.
C7_EmptyInputIsUsageError ==
    (srcState = "ended" /\ Len(input) = 0) =>
        /\ reqs = <<>>
        /\ outcome # "success"
        /\ outcome = "running" => ENABLED CloseStart
        /\ outcome = "failed" => error = ClosedWithoutData

C7_Witness ==
    /\ srcState = "ended"
    /\ Len(input) = 0
    /\ "empty" \in seen
    /\ outcome = "failed"
    /\ error = ClosedWithoutData

\* C8: the k-th chunk the uploader receives is uploaded as partNumber k with that
\* chunk as payload; the numbers are 1, 2, 3, ... without gap or repeat, whatever
\* uploads are in flight.
C8_PartNumbersFollowStreamOrder ==
    /\ nextPartNumber = (Len(emitted) - Len(queue)) + 1
    /\ \A k \in 1..Len(PartReqs) :
          /\ PartReqs[k].partNumber = k
          /\ PartReqs[k].payload = ChunkBytes(heap, emitted[k])

C8_Witness ==
    /\ Len(PartReqs) = 3
    /\ Cardinality(InFlightParts) >= 2
    /\ outOfOrder
    /\ PartReqs[1].payload # PartReqs[2].payload

\* C9: the latched error is the error of the part upload that failed first in time;
\* later failures never replace it, and it is the error close() raises.
C9_FirstFailureIsLatched ==
    /\ multiUploadError = IF firstFailed = 0 THEN NoError ELSE RequestError("part", firstFailed)
    /\ (cpc = "done" /\ firstFailed # 0) =>
          /\ outcome = "failed"
          /\ error = RequestError("part", firstFailed)

C9_Witness ==
    /\ cpc = "done"
    /\ firstFailed = 2
    /\ FailedParts = {1, 2, 3}
    /\ error = RequestError("part", 2)

\* C10 (state part): while close() has not finished waiting, a part failure is not
\* surfaced; it is surfaced by close() only, when no part upload is in flight.
C10_SurfacedAtCloseAfterAllSettled ==
    /\ (FailedParts # {} /\ cpc \in {"none", "parts"}) =>
          (outcome = "running" \/ (outcome = "failed" /\ error = SourceError))
    /\ (outcome = "failed" /\ error.kind = "part") => (cpc = "done" /\ InFlightParts = {})

\* C10 (step part): after a part failure, a write of a further chunk still dispatches
\* it as a part upload, and no step takes an in-flight part upload back.
C10_FailureStopsNothing ==
    /\ (multiUploadError # NoError /\ nextPartNumber' # nextPartNumber) =>
          /\ Len(reqs') = Len(reqs) + 1
          /\ reqs'[Len(reqs')].kind = "part"
          /\ reqs'[Len(reqs')].status = "inflight"
    /\ \A i \in InFlightParts :
          /\ reqs'[i].kind = "part"
          /\ reqs'[i].status # "inflight" =>
                (nextPartNumber' = nextPartNumber /\ Len(reqs') = Len(reqs))

\* C10: a part-upload failure neither cancels the part uploads in flight nor stops
\* later chunks from being dispatched; it is surfaced only at close, after every
\* dispatched part upload has settled.
C10_FailureIsDeferredToClose ==
    [](C10_SurfacedAtCloseAfterAllSettled) /\ [][C10_FailureStopsNothing]_vars

C10_Witness ==
    /\ firstFailed = 1
    /\ outcome = "running"
    /\ Cardinality(InFlightParts) >= 1
    /\ \E i \in InFlightParts : reqs[i].partNumber = 3

\* An initiate request that was rejected, or answered without an UploadId.
InitiateFailed(i) ==
    \/ reqs[i].status = "failed"
    \/ reqs[i].status \in {"ok", "invalid"} /\ reqs[i].uploadId = ""

C12_PartsAreDispatchedInParallel ==
    /\ (outcome = "running" /\ srcState # "errored" /\ wpc = "idle" /\ cpc = "none"
        /\ queue # <<>>) => ENABLED Write
    /\ InFlightParts # {} => wpc = "idle"

\* All N parts of an upload are outstanding at once.
C12_Witness ==
    /\ srcState = "ended"
    /\ queue = <<>>
    /\ Len(emitted) = 3
    /\ Cardinality(InFlightParts) = 3

C14_AbortResolvesToFailure ==
    srcState = "errored" =>
        /\ outcome # "success"
        /\ Count("complete") = 0
        /\ outcome = "running" => ENABLED PipeAborts

\* The part of C14 that holds of the code: no success and no complete request.
C14_NoSuccessAfterSourceError ==
    srcState = "errored" => (outcome # "success" /\ Count("complete") = 0)

\* ------------------------------------------------ claims about part sizes
\* the size the part count is reckoned for: the declared size, 5 TiB when unknown
DeclaredSize == AssumedSize(size)
Calculated == options.partSize.undef

\* C15: when putObject starts the upload, the part size it uses is not smaller than the
\* caller's partSize option, and 10,000 parts of that size hold more than the declared
\* object size (5 TiB when the size is unknown).
C15_PartSizeCoversDeclaredSize ==
    ppc = "piping" =>
        /\ ~options.partSize.undef => ~Less(putPartSize, options.partSize)
        /\ Less(DeclaredSize, Times(putPartSize, maxParts))

\* C16: for every size from 0 to 5 TiB (5 TiB when unknown) calculatePartSize returns a
\* member p of {64 MiB + k * 16 MiB} with p * 10,000 > size, and the smallest such; its
\* loop ends because every candidate before the current one was too small for a size of
\* at most 5 TiB.
C16_CalculatePartSizeIsSmallestFit ==
    /\ ppc = "calc" =>
          /\ ~Less(maxObjectSize, DeclaredSize)
          /\ \E k \in 0..MaxSteps :
                /\ calcPartSize = Candidate(k)
                /\ \A j \in 0..(k - 1) : ~Less(DeclaredSize, Times(Candidate(j), maxParts))
          /\ ENABLED CalcLoop
    /\ (ppc \in {"range", "piping"} /\ Calculated) =>
          /\ \E k \in 0..MaxSteps : putPartSize = Candidate(k)
          /\ Less(DeclaredSize, Times(putPartSize, maxParts))
          /\ \A k \in 0..MaxSteps :
                Less(DeclaredSize, Times(Candidate(k), maxParts))
                    => ~Less(Candidate(k), putPartSize)
          /\ putPartSize = CalculatedPartSize(size)
    /\ (ppc = "select" /\ Calculated /\ ~Less(maxObjectSize, DeclaredSize)) =>
          ENABLED (SelectPartSize /\ ppc' = "calc")

C16_Witness ==
    /\ ppc = "range" /\ Calculated
    /\ size = maxObjectSize
    /\ putPartSize = B(528, 0)

\* C17: a declared size above 5 TiB never gets as far as the upload, whatever the other
\* options are: putObject throws before the pipeline is built.
C17_OversizeIsRejected ==
    (~options.size.undef /\ Less(maxObjectSize, options.size)) =>
        ppc # "piping"

\* 5 MiB <= p <= 5 GiB
Allowed(p) ==
    /\ p.mib > 5 \/ (p.mib = 5 /\ p.off >= 0)
    /\ p.mib < 5120 \/ (p.mib = 5120 /\ p.off <= 0)

\* C18: the upload starts only with a part size from 5 MiB to 5 GiB, both included; a
\* part size outside that range, supplied or calculated, makes putObject throw
\* InvalidArgumentError before the pipeline is built; a calculated part size is always
\* inside the range.
C18_PartSizeWithinRange ==
    /\ ppc = "piping" => Allowed(putPartSize)
    /\ ppc = "range" =>
          /\ Allowed(putPartSize) => ENABLED (CheckRange /\ ppc' = "piping")
          /\ ~Allowed(putPartSize) =>
                ENABLED (CheckRange /\ ppc' = "thrown" /\ thrown' = "InvalidArgumentError")
          /\ Calculated => Allowed(putPartSize)
    /\ (ppc = "thrown" /\ ~putPartSize.undef) =>
          /\ thrown = "InvalidArgumentError"
          /\ ~Allowed(putPartSize)
          /\ reqs = <<>>

C18_Witness ==
    /\ ppc = "piping"
    /\ putPartSize = maximumPartSize
    /\ options.partSize = maximumPartSize

\* ------------------------------------------------------- claims about URLs
RECURSIVE CountSub(_, _)
\* number of places where sub occurs in str
CountSub(str, sub) ==
    IF Len(str) < Len(sub) THEN 0
    ELSE (IF SubSeq(str, 1, Len(sub)) = sub THEN 1 ELSE 0) + CountSub(Tail(str), sub)
Spaces(pairs) ==
    CountSub(Join([i \in 1..Len(pairs) |-> pairs[i].key \o pairs[i].val], <<>>), <<" ">>)
Escape(c) ==
    IF c \in Words \cup {"-", ".", "_", "~", "/"} THEN <<c>>
    ELSE IF c = "+" THEN <<"%", "2", "B">>
    ELSE IF c = " " THEN <<"%", "2", "0">>
    ELSE <<"%", "2", "1">>
EscapedName == Join([i \in 1..Len(objectName) |-> Escape(objectName[i])], <<>>)

\* C19: the path of the URL given to fetch, or of the presigned URL, is the bucket
\* followed by the percent-encoded object name, the same string as the canonical URI that
\* was signed, and holds no literal '+'.
C19_SentPathIsSignedPath ==
    upc = "done" =>
        /\ ResourceOf(url) = <<"/", "bucket", "/">> \o EscapedName
        /\ ResourceOf(url) = canonical.uri
        /\ "+" \notin Range(ResourceOf(url))

\* C20: the query string of a presigned URL, as emitted and as signed, holds no literal
\* '+', and holds one %20 for each space of the parameter values.
C20_PresignedQueryHasNoPlus ==
    (upc = "done" /\ op = "getPresignedUrl") =>
        /\ "+" \notin Range(QueryOf(url))
        /\ "+" \notin Range(canonical.query)
        /\ CountSub(QueryOf(url), <<"%", "2", "0">>) = Spaces(parameters)
        /\ CountSub(canonical.query, <<"%", "2", "0">>) = Spaces(parameters)

\* ------------------------------------------- further claims about uploads
FullChunks == {i \in 1..Len(emitted) : ~emitted[i].atFlush}

\* C24: every full chunk the chunker has emitted lies in an array of its own, which is
\* neither the array the chunker is filling now nor the array of any other emitted chunk,
\* and still holds the bytes of its slice of the input.
C24_EmittedChunksAreNotOverwritten ==
    \A i \in FullChunks :
        /\ emitted[i].buf # buffer
        /\ \A j \in 1..Len(emitted) : j # i => emitted[j].buf # emitted[i].buf
        /\ i * partSize <= Len(input)
        /\ ChunkBytes(heap, emitted[i]) = SubSeq(input, (i - 1) * partSize + 1, i * partSize)

C24_Witness ==
    /\ {1, 2} \subseteq FullChunks
    /\ Len(queue) = Len(emitted)
    /\ Len(input) > 2 * partSize
    /\ ChunkBytes(heap, emitted[1]) # ChunkBytes(heap, emitted[2])

\* C25: between transform calls the buffered offset is below outChunkSize; a prefix of L
\* bytes has produced floor(L / outChunkSize) full chunks and left L mod outChunkSize
\* bytes in the buffer.
C25_OffsetBelowChunkSize ==
    /\ 0 <= offset /\ offset < outChunkSize
    /\ Cardinality(FullChunks) = Len(input) \div outChunkSize
    /\ offset = Len(input) % outChunkSize

C25_Witness ==
    /\ srcState = "open"
    /\ "big" \in seen
    /\ Len(input) = outChunkSize + 1
    /\ outChunkSize > 1
    /\ Cardinality(FullChunks) = 1 /\ offset = 1

Unsuccessful(i) == reqs[i].status \in {"failed", "invalid"}

C27_PartsFollowInitiate ==
    /\ \A i \in RequestsOf("part") :
          \E j \in RequestsOf("initiate") :
              /\ j < i
              /\ reqs[j].status = "ok"
              /\ reqs[j].uploadId # ""
              /\ reqs[i].uploadId = reqs[j].uploadId
    /\ Count("put") > 0 =>
          /\ Len(reqs) = 1
          /\ queue = <<>>
          /\ Len(emitted) = 1 /\ emitted[1].atFlush /\ emitted[1].len < partSize

C27_Witness ==
    /\ Count("part") = 3
    /\ \A i \in RequestsOf("part") : reqs[i].uploadId = "u1"
    /\ reqs[1].kind = "initiate" /\ reqs[1].uploadId = "u1"

SseKeys == {"x-amz-server-side-encryption-customer-algorithm",
            "x-amz-server-side-encryption-customer-key",
            "x-amz-server-side-encryption-customer-key-MD5"}

\* C30: an upload-part request carries Content-Length and those of the three SSE-C
\* headers that the metadata holds with a non-empty value, with that value, and nothing
\* else; the initiate request and the single-shot PUT carry all the metadata.
C30_PartsCarryOnlySseHeaders ==
    /\ \A i \in RequestsOf("part") :
          /\ DOMAIN reqs[i].headers =
                {"Content-Length"} \cup {k \in SseKeys \cap DOMAIN metadata : metadata[k] # ""}
          /\ \A k \in DOMAIN reqs[i].headers \ {"Content-Length"} :
                reqs[i].headers[k] = metadata[k]
    /\ \A i \in RequestsOf("initiate") : reqs[i].headers = metadata
    /\ \A i \in RequestsOf("put") :
          /\ DOMAIN reqs[i].headers = DOMAIN metadata \cup {"Content-Length"}
          /\ \A k \in DOMAIN metadata : reqs[i].headers[k] = metadata[k]

C30_Witness ==
    /\ Count("part") = 2
    /\ \A i \in RequestsOf("part") :
          DOMAIN reqs[i].headers =
              {"Content-Length", "x-amz-server-side-encryption-customer-algorithm",
               "x-amz-server-side-encryption-customer-key-MD5"}
    /\ "x-amz-server-side-encryption-customer-key" \in DOMAIN metadata

Terminal == getResult.thrown = "" \/ outcome = "failed"

\* C28: when the stream ends and every request is answered, putObject returns or throws,
\* and then getResult returns an {etag, versionId} or the upload has failed; as long as
\* neither is so, getResult throws "Result is not ready"; a result once available is
\* what putObject returns, never followed by a failure.
C28_UploadTerminates ==
    /\ <>(Terminal /\ outcome # "running")
    /\ [](~Terminal => getResult = ResultNotReady)
    /\ [](outcome = "success" => (getResult.thrown = "" /\ getResult.value = result))
    /\ [](getResult.thrown = "" =>
            /\ outcome # "failed"
            /\ getResult.value.etag \in {sanitizeETag(e) : e \in EtagValues}
            /\ getResult.value.versionId \in VersionIds)

C28_Witness ==
    /\ outcome = "success"
    /\ Count("part") = 2
    /\ getResult.thrown = ""
    /\ \E i \in RequestsOf("complete") : getResult.value = CompleteResult(reqs[i].etag, reqs[i].versionId)

RECURSIVE AfterFirst(_, _)
\* what follows the first c in str (nothing when there is none)
AfterFirst(str, c) ==
    IF str = <<>> THEN <<>>
    ELSE IF Head(str) = c THEN Tail(str) ELSE AfterFirst(Tail(str), c)
RECURSIVE BeforeFirst(_, _)
BeforeFirst(str, c) ==
    IF str = <<>> \/ Head(str) = c THEN <<>> ELSE <<Head(str)>> \o BeforeFirst(Tail(str), c)
\* a pair of the canonical query string, split at the first '=' only
PairSplitAtFirstEquals(element) ==
    awsUriEncode(decodeURIComponent(BeforeFirst(element, "=")), FALSE) \o <<"=">>
        \o awsUriEncode(decodeURIComponent(AfterFirst(element, "=")), FALSE)

\* C29: every pair of the canonical query string that is signed is the pair of the
\* request's query split at its first '=': the key before it, and the whole of what
\* follows it as the value, each decoded and encoded again.
C29_PairsSplitAtFirstEquals ==
    (upc = "done" /\ op # "getPresignedUrl" /\ QueryOf(path) # <<>>) =>
        LET elements == Split(QueryOf(path), "&")
            signed == Split(canonical.query, "&")
        IN /\ Len(signed) = Len(elements)
           /\ \A i \in 1..Len(elements) :
                 \E j \in 1..Len(signed) : signed[j] = PairSplitAtFirstEquals(elements[i])

Names(list) == {list[i] : i \in 1..Len(list)}
LoweredNames(list) == {toLowerCase(list[i]) : i \in 1..Len(list)}
SignedWithHeaders == signCall.fn \in {"signV4", "presignV4"} /\ signCall.thrown = ""

\* C21: the header names that are signed are the names of the request's headers other
\* than authorization, content-length, content-type and user-agent in any letter case,
\* each of them exactly once, in ascending order of their lower-case forms.
C21_SignedHeadersOnceAndSorted ==
    SignedWithHeaders =>
        LET signed == signCall.signedHeaders
        IN /\ Names(signed) = LoweredNames(headerList) \ ignoredHeaders
           /\ \A i, j \in 1..Len(signed) : i # j => signed[i] # signed[j]
           /\ \A i, j \in 1..Len(signed) :
                 i < j => ~CodeUnitLess(toLowerCase(signed[j]), toLowerCase(signed[i]))

ValidExpiry == 1..604800
CredentialErrors == {"AccessKeyRequiredError", "SecretKeyRequiredError"}

\* C22: a signing call with an empty accessKey throws AccessKeyRequiredError, one with
\* an accessKey and an empty secretKey throws SecretKeyRequiredError, and a call that
\* throws has produced nothing; with both keys given, presignV4 and presignPostV4 throw
\* InvalidExpiryError exactly when expirySeconds is outside 1..604800; a call that
\* passes these checks throws none of the three errors.
C22_CredentialAndExpiryChecks ==
    signCall.fn # "none" =>
        LET presign == signCall.fn \in {"presignV4", "presignPostV4"}
            hasKeys == signCall.accessKey # "" /\ signCall.secretKey # ""
        IN /\ signCall.accessKey = "" => signCall.thrown = "AccessKeyRequiredError"
           /\ (signCall.accessKey # "" /\ signCall.secretKey = "")
                 => signCall.thrown = "SecretKeyRequiredError"
           /\ signCall.thrown # "" => signCall.output = "none" /\ signCall.signedHeaders = <<>>
           /\ (presign /\ hasKeys) =>
                 (signCall.thrown = "InvalidExpiryError"
                     <=> signCall.expirySeconds \notin ValidExpiry)
           /\ ~presign => signCall.thrown # "InvalidExpiryError"
           /\ (hasKeys /\ (presign => signCall.expirySeconds \in ValidExpiry))
                 => signCall.thrown \notin CredentialErrors \cup {"InvalidExpiryError"}
C22_Witness ==
    /\ signCall.fn = "presignPostV4"
    /\ signCall.accessKey # "" /\ signCall.secretKey # ""
    /\ signCall.expirySeconds = 1
    /\ signCall.thrown = ""

\* every page answered held no more entries than the max-keys of its request
PagesWithinMaxKeys == \A i \in 1..Len(pages) : pages[i] <= listRequests[i].maxKeys

\* C23: a listing called with maxResults = M, whose pages all hold no more entries than
\* the max-keys asked for, has yielded at most M results, and each of its page requests
\* was made when fewer than M results had been yielded.
C23_YieldsAtMostMaxResults ==
    (listOptions.maxResults.given /\ PagesWithinMaxKeys) =>
        /\ yielded <= listOptions.maxResults.n
        /\ \A i \in 1..Len(listRequests) : listRequests[i].yielded < listOptions.maxResults.n

====
